---- MODULE Spec2Model ----
(***************************************************************************)
(* A model of the paper-reader backend (src/backend).                      *)
(*                                                                         *)
(*   Spec          one SSE streaming request: sse_from_claude driving      *)
(*                 stream_claude (pty, child process, executor reads), or  *)
(*                 sse_from_translator driving translate_sections          *)
(*   SpecSegment   detect_sections applied to a text                       *)
(*   SpecLines     detect_sections applied to a text given by its lines    *)
(*   SpecChunk     chunk_text applied to a text and a token budget         *)
(*   SpecContext   get_paper_context applied to a paper and a budget       *)
(*   SpecClassify  classify_url applied to a url                           *)
(*   SpecStore     store_paper / get_paper on the in-memory _papers dict   *)
(*   SpecFair      Spec under fair scheduling of the bridge and the child  *)
(*   SpecAnsi      _strip_ansi applied to a text of terminal output        *)
(*   SpecBlocks    stream_claude's reading loop applied to an output cut   *)
(*                 into read blocks                                        *)
(*   SpecTranslate _translate_text applied to a content                    *)
(*   SpecLoop      the event loop shared by a translation stream and       *)
(*                 another request                                         *)
(*   SpecLoad      concurrent api_load_paper requests: load_paper with the *)
(*                 resolver, the metadata fetch, the download, the store   *)
(*                                                                         *)
(* Strings are sequences of one-character strings, so that len, strip,     *)
(* split and slicing are computed as Python computes them.                 *)
(***************************************************************************)
EXTENDS Integers, Sequences, FiniteSets, TLC

\* ------------------------------------------------------------------------
\* Bounds of the model
\* ------------------------------------------------------------------------

\* characters the child writes to the pseudo-terminal in one run
MaxOut == 3
\* characters of diagnostics the child sets out to write to its stderr pipe
\* in one run
MaxErr == 3
\* abandoned executor reads that are tracked (the count saturates here)
MaxOrphans == 2

\* ------------------------------------------------------------------------
\* Python string helpers
\* ------------------------------------------------------------------------

\* str.isspace() of one character
WS == {" ", "\n", "\r", "\t"}

Min(a, b) == IF a <= b THEN a ELSE b

Max(a, b) == IF a >= b THEN a ELSE b

\* s[n:]
Drop(s, n) == SubSeq(s, n + 1, Len(s))

\* s[:n]
Take(s, n) == SubSeq(s, 1, Min(n, Len(s)))

RECURSIVE LStrip(_)
LStrip(s) == IF s # <<>> /\ s[1] \in WS THEN LStrip(Tail(s)) ELSE s

RECURSIVE RStrip(_)
RStrip(s) ==
    IF s # <<>> /\ s[Len(s)] \in WS THEN RStrip(SubSeq(s, 1, Len(s) - 1)) ELSE s

\* str.strip()
Strip(s) == RStrip(LStrip(s))

\* s.startswith(p)
StartsWith(s, p) == Len(s) >= Len(p) /\ SubSeq(s, 1, Len(p)) = p

RECURSIVE Concat(_)
Concat(ss) == IF ss = <<>> THEN <<>> ELSE Head(ss) \o Concat(Tail(ss))

\* sep.join(ss)
RECURSIVE Join(_, _)
Join(ss, sep) ==
    IF ss = <<>> THEN <<>>
    ELSE IF Len(ss) = 1 THEN ss[1]
    ELSE ss[1] \o sep \o Join(Tail(ss), sep)

\* s.split(sep), sep non-empty: cut at each leftmost occurrence of sep
RECURSIVE SplitFrom(_, _, _)
SplitFrom(s, sep, acc) ==
    IF s = <<>> THEN <<acc>>
    ELSE IF StartsWith(s, sep) THEN <<acc>> \o SplitFrom(Drop(s, Len(sep)), sep, <<>>)
    ELSE SplitFrom(Tail(s), sep, Append(acc, Head(s)))

Split(s, sep) == SplitFrom(s, sep, <<>>)

\* all sequences over S of length at most n
SeqsUpTo(S, n) == UNION {[1..k -> S] : k \in 0..n}

\* ------------------------------------------------------------------------
\* llm.py: cleaning of the pseudo-terminal output
\* ------------------------------------------------------------------------

ESC == "ESC"
BEL == "BEL"
\* [0-9;]
CsiParams == {"0", "1", "2", ";"}
\* [a-zA-Z]
Letters == {"a", "b", "m", "A", "B", "H", "K"}
\* [AB012]
CharsetFinals == {"A", "B", "0", "1", "2"}

\* bytes.decode("utf-8", errors="replace") of one block: "C3" "A9" is the
\* two-byte encoding of U+00E9; a lead byte without its continuation byte and
\* a continuation byte without its lead byte each decode to U+FFFD.
RECURSIVE Decode(_)
Decode(bs) ==
    IF bs = <<>> THEN <<>>
    ELSE IF bs[1] = "C3" /\ Len(bs) >= 2 /\ bs[2] = "A9"
        THEN <<"U+00E9">> \o Decode(Drop(bs, 2))
    ELSE IF bs[1] \in {"C3", "A9"} THEN <<"U+FFFD">> \o Decode(Tail(bs))
    ELSE <<bs[1]>> \o Decode(Tail(bs))

\* length of the longest prefix of s made of characters of S
RECURSIVE Run(_, _)
Run(s, S) == IF s # <<>> /\ s[1] \in S THEN 1 + Run(Tail(s), S) ELSE 0

\* position of the first c in s, 0 if there is none
RECURSIVE Find(_, _)
Find(s, c) ==
    IF s = <<>> THEN 0
    ELSE IF s[1] = c THEN 1
    ELSE LET r == Find(Tail(s), c) IN IF r = 0 THEN 0 ELSE r + 1

\* length of the match of \x1b\[[0-9;]*[a-zA-Z] at the start of s, 0 if none
CsiMatch(s) ==
    IF Len(s) >= 3 /\ s[1] = ESC /\ s[2] = "["
    THEN LET n == Run(Drop(s, 2), CsiParams)
         IN IF Len(s) >= n + 3 /\ s[n + 3] \in Letters THEN n + 3 ELSE 0
    ELSE 0

\* length of the match of \x1b\][^\x07]*\x07 at the start of s, 0 if none
OscMatch(s) ==
    IF Len(s) >= 3 /\ s[1] = ESC /\ s[2] = "]"
    THEN LET k == Find(Drop(s, 2), BEL) IN IF k = 0 THEN 0 ELSE k + 2
    ELSE 0

\* length of the match of \x1b[()][AB012] at the start of s, 0 if none
CharsetMatch(s) ==
    IF Len(s) >= 3 /\ s[1] = ESC /\ s[2] \in {"(", ")"} /\ s[3] \in CharsetFinals
    THEN 3 ELSE 0

\* re.sub(pattern, '', s): the non-overlapping matches, leftmost first
RECURSIVE SubCsi(_)
SubCsi(s) ==
    IF s = <<>> THEN <<>>
    ELSE IF CsiMatch(s) > 0 THEN SubCsi(Drop(s, CsiMatch(s)))
    ELSE <<s[1]>> \o SubCsi(Tail(s))

RECURSIVE SubOsc(_)
SubOsc(s) ==
    IF s = <<>> THEN <<>>
    ELSE IF OscMatch(s) > 0 THEN SubOsc(Drop(s, OscMatch(s)))
    ELSE <<s[1]>> \o SubOsc(Tail(s))

RECURSIVE SubCharset(_)
SubCharset(s) ==
    IF s = <<>> THEN <<>>
    ELSE IF CharsetMatch(s) > 0 THEN SubCharset(Drop(s, CharsetMatch(s)))
    ELSE <<s[1]>> \o SubCharset(Tail(s))

\* text.replace('\r', '')
RECURSIVE RemoveCR(_)
RemoveCR(s) ==
    IF s = <<>> THEN <<>>
    ELSE IF s[1] = "\r" THEN RemoveCR(Tail(s))
    ELSE <<s[1]>> \o RemoveCR(Tail(s))

_strip_ansi(text) == RemoveCR(SubCharset(SubOsc(SubCsi(text))))

\* ------------------------------------------------------------------------
\* State
\* ------------------------------------------------------------------------

VARIABLES
    \* --- one SSE streaming request (main.py, llm.py, translator.py) ---
    route,        \* "claude": sse_from_claude, "translator": sse_from_translator
    sse,          \* the SSE generator: "iterating", "finished", "cancelled"
    frames,       \* the SSE frames yielded so far, in order
    gen,          \* where stream_claude is: see the actions below
    closing,      \* the consumer closed the stream; the generator is unwinding
    master_fd,    \* read side of the pty: "unopened", "open", "closed"
    slave_fd,     \* the parent's copy of the write side, likewise
    child,        \* the child process: "none", "running", "exited"
    exit_status,  \* the status the child exited with
    slave_held,   \* a descendant of the child still holds the pty's write side
    returncode,   \* proc.returncode: <<>> is None, <<n>> once the child is reaped
    pty,          \* bytes written to the pty and not yet read
    written,      \* how many bytes the child has written to the pty
    child_out,    \* the bytes the pty accepted from the child, in order
    stderr_pipe,  \* what the child has written to its stderr pipe
    stderr_todo,  \* diagnostics the child has still to write before it exits
    orphans,      \* executor threads still blocked in os.read after a timeout
    tokens,       \* the tokens stream_claude has yielded, in order
    waited,       \* "await proc.wait()" of the finally block has returned
    sections,     \* the stored paper's sections handed to sse_from_translator
    tr_idx,       \* the section translate_sections handles next
    pairs,        \* the (heading, content) pairs translate_sections has yielded
    tr_failed,    \* per yielded pair: did a heading call, a content call, raise
    \* --- a call of a pure function ---
    arg,          \* the arguments of the call
    result,       \* <<>> before the call, <<value>> after it
    \* --- the paper store (paper_ingestion.py) ---
    _papers,      \* the module-level dict: id -> paper, for the stored ids
    store_log,    \* the store_paper calls so far: [paper, pid] in call order
    loads,        \* the api_load_paper requests being served, one record each
    \* --- the event loop (one thread for all requests) ---
    loop          \* who holds the thread, and where each request task is

streamVars == <<route, sse, frames, gen, closing, master_fd, slave_fd, child,
                exit_status, slave_held, returncode, pty, written, child_out,
                   stderr_pipe, stderr_todo,
                orphans, tokens, waited, sections, tr_idx, pairs, tr_failed>>
callVars == <<arg, result>>
storeVars == <<_papers, store_log, loads, loop>>
vars == <<streamVars, callVars, storeVars>>

\* the parts of the state an action of the bridge leaves alone
procVars == <<master_fd, slave_fd, child, exit_status, slave_held, returncode,
              pty, written, child_out, stderr_pipe, stderr_todo, orphans, waited>>
transVars == <<sections, tr_idx, pairs, tr_failed>>

\* no streaming request is being served
StreamIdle ==
    /\ route = "none" /\ sse = "idle" /\ frames = <<>> /\ gen = "idle"
    /\ closing = FALSE /\ master_fd = "unopened" /\ slave_fd = "unopened"
    /\ child = "none" /\ exit_status = 0 /\ slave_held = FALSE
    /\ returncode = <<>> /\ pty = <<>> /\ written = 0 /\ stderr_pipe = <<>>
    /\ child_out = <<>> /\ stderr_todo = 0
    /\ orphans = 0 /\ tokens = <<>> /\ waited = FALSE
    /\ sections = <<>> /\ tr_idx = 1 /\ pairs = <<>> /\ tr_failed = <<>>

\* no pure function is being called
CallIdle == arg = <<>> /\ result = <<>>

\* the store as the module is imported: _papers = {}
\* no load request is being served, and the event loop is not looked at
StoreIdle == _papers = <<>> /\ store_log = <<>> /\ loads = <<>> /\ loop = <<>>

\* ------------------------------------------------------------------------
\* main.py: SSE framing
\* ------------------------------------------------------------------------

\* f"data: {json.dumps({'token': token})}\n\n"
TokenFrame(token) == [type |-> "token", data |-> token, section |-> <<>>]

\* f"data: {json.dumps({'token': chunk, 'section': heading})}\n\n"
SectionFrame(chunk, heading) == [type |-> "token", data |-> chunk, section |-> heading]

\* f"data: {json.dumps({'error': str(e)})}\n\n"
ErrorFrame(msg) == [type |-> "error", data |-> msg, section |-> <<>>]

\* "data: [DONE]\n\n"
DoneFrame == [type |-> "done", data |-> <<>>, section |-> <<>>]

\* a variant of SseOnException that also ends the stream with the done frame
SseOnException_AlsoDone(msg) ==
    /\ frames' = frames \o <<ErrorFrame(msg), DoneFrame>>
    /\ sse' = "finished"

\* sse_from_claude when stream_claude raises e: the except clause yields the
\* error frame and the generator ends; "data: [DONE]" is inside the try.
SseOnException(msg) ==
    /\ frames' = Append(frames, ErrorFrame(msg))
    /\ sse' = "finished"

\* a variant of SseOnExhausted that ends the stream without the done frame
SseOnExhausted_NoDone ==
    /\ frames' = frames
    /\ sse' = "finished"

\* sse_from_claude when stream_claude is exhausted: the line after the loop
SseOnExhausted ==
    /\ frames' = Append(frames, DoneFrame)
    /\ sse' = "finished"

\* sse_from_claude for one token of stream_claude
SseOnToken(token) ==
    /\ frames' = Append(frames, TokenFrame(token))
    /\ sse' = sse

\* ------------------------------------------------------------------------
\* llm.py: stream_claude, driven by sse_from_claude
\* ------------------------------------------------------------------------

\* os.read(master_fd, 4096): the block size, scaled to the model's output
READ_SIZE == 2

\* the bytes the child may write to the pty
OutBytes == {"a", "b", "\r"}

\* the bytes the child may write to its stderr pipe
ErrBytes == {"e", " "}

ExitStatuses == {0, 1}

\* stderr=asyncio.subprocess.PIPE (line 65): the bytes the pipe and the
\* StreamReader in front of it hold before the child's write blocks (the
\* kernel's pipe buffer plus twice the reader's limit), scaled to MaxErr
STDERR_CAPACITY == 2

\* f"\n\n[Error: {err_msg}]"
ErrorPrefix == <<"\n", "\n", "[", "E", "r", "r", "o", "r", ":", " ">>

ErrorToken(err_msg) == ErrorPrefix \o err_msg \o <<"]">>

\* every holder of the pty's write side has closed it
PeerClosed == slave_fd # "open" /\ child = "exited" /\ ~slave_held

\* stream_claude is suspended inside the try block of lines 72-88
InTry == gen \in {"reading", "yield_token"}

\* line 60: pty.openpty() succeeds
OpenPty ==
    /\ route = "claude" /\ sse = "iterating" /\ gen = "start"
    /\ master_fd' = "open" /\ slave_fd' = "open"
    /\ gen' = "spawn"
    /\ UNCHANGED <<route, sse, frames, closing, child, exit_status, slave_held,
                   returncode, pty, written, child_out, stderr_pipe, stderr_todo, orphans,
                   tokens, waited>>
    /\ UNCHANGED <<transVars, callVars, storeVars>>

\* line 60: pty.openpty() raises OSError; nothing is open yet, and the
\* exception reaches the except clause of sse_from_claude
OpenPtyFails ==
    /\ route = "claude" /\ sse = "iterating" /\ gen = "start"
    /\ gen' = "raised"
    /\ SseOnException(<<"OSError">>)
    /\ UNCHANGED <<route, closing, tokens, procVars, transVars, callVars, storeVars>>

\* lines 62-68: the child is started on the slave side, and the parent closes
\* its copy of the slave side
Spawn ==
    /\ gen = "spawn"
    /\ child' = "running"
    /\ slave_fd' = "closed"
    /\ gen' = "reading"
    /\ UNCHANGED <<route, sse, frames, closing, master_fd, exit_status, slave_held,
                   returncode, pty, written, child_out, stderr_pipe, stderr_todo, orphans,
                   tokens, waited>>
    /\ UNCHANGED <<transVars, callVars, storeVars>>

\* lines 62-67: create_subprocess_exec raises (no "claude" executable); this
\* is before the try block, so neither descriptor is closed
SpawnFails ==
    /\ gen = "spawn"
    /\ gen' = "raised"
    /\ SseOnException(<<"FileNotFoundError">>)
    /\ UNCHANGED <<route, closing, tokens, procVars, transVars, callVars, storeVars>>

\* a variant of ReadData that takes the newest bytes of the pty, not the oldest
ReadData_NewestFirst ==
    /\ gen = "reading" /\ master_fd = "open" /\ pty # <<>>
    /\ LET data == Drop(pty, Len(pty) - Min(Len(pty), READ_SIZE))
           text == _strip_ansi(Decode(data))
       IN /\ pty' = Take(pty, Len(pty) - Len(data))
          /\ IF text # <<>>
             THEN /\ tokens' = Append(tokens, text)
                  /\ SseOnToken(text)
                  /\ gen' = "yield_token"
             ELSE UNCHANGED <<tokens, frames, sse, gen>>
    /\ UNCHANGED <<route, closing, master_fd, slave_fd, child, exit_status,
                   slave_held, returncode, written, child_out, stderr_pipe, stderr_todo,
                   orphans, waited>>
    /\ UNCHANGED <<transVars, callVars, storeVars>>

\* lines 75-83: the read returns a block; it is decoded and cleaned, and
\* yielded as a token unless nothing is left of it
ReadData ==
    /\ gen = "reading" /\ master_fd = "open" /\ pty # <<>>
    /\ LET data == Take(pty, READ_SIZE)
           text == _strip_ansi(Decode(data))
       IN /\ pty' = Drop(pty, Len(data))
          /\ IF text # <<>>
             THEN /\ tokens' = Append(tokens, text)
                  /\ SseOnToken(text)
                  /\ gen' = "yield_token"
             ELSE UNCHANGED <<tokens, frames, sse, gen>>
    /\ UNCHANGED <<route, closing, master_fd, slave_fd, child, exit_status,
                   slave_held, returncode, written, child_out, stderr_pipe, stderr_todo, orphans, waited>>
    /\ UNCHANGED <<transVars, callVars, storeVars>>

\* lines 79-80: the read returns b"" (the peer closed the pty): break
ReadEmpty ==
    /\ gen = "reading" /\ master_fd = "open" /\ pty = <<>> /\ PeerClosed
    /\ gen' = "finally_close"
    /\ UNCHANGED <<route, sse, frames, closing, tokens, procVars>>
    /\ UNCHANGED <<transVars, callVars, storeVars>>

\* lines 87-88: the read raises OSError (EIO once the peer closed the pty): break
ReadOSError ==
    /\ gen = "reading" /\ master_fd = "open" /\ pty = <<>> /\ PeerClosed
    /\ gen' = "finally_close"
    /\ UNCHANGED <<route, sse, frames, closing, tokens, procVars>>
    /\ UNCHANGED <<transVars, callVars, storeVars>>

\* lines 84-86: no data within the second: wait_for cancels the future, but the
\* executor thread stays blocked in os.read; break if the child has been reaped
ReadTimeout ==
    /\ gen = "reading" /\ master_fd = "open" /\ pty = <<>> /\ ~PeerClosed
    /\ orphans' = Min(orphans + 1, MaxOrphans)
    /\ gen' = IF returncode # <<>> THEN "finally_close" ELSE "reading"
    /\ UNCHANGED <<route, sse, frames, closing, tokens, master_fd, slave_fd, child,
                   exit_status, slave_held, returncode, pty, written,
                   child_out, stderr_pipe, stderr_todo, waited>>
    /\ UNCHANGED <<transVars, callVars, storeVars>>

\* line 76: a thread left blocked by an earlier timeout gets the next block;
\* its future was cancelled, so the block is dropped
OrphanRead ==
    /\ orphans > 0 /\ master_fd = "open" /\ pty # <<>>
    /\ pty' = Drop(pty, Len(Take(pty, READ_SIZE)))
    /\ orphans' = orphans - 1
    /\ UNCHANGED <<route, sse, frames, gen, closing, tokens, master_fd, slave_fd,
                   child, exit_status, slave_held, returncode, written,
                   child_out, stderr_pipe, stderr_todo, waited>>
    /\ UNCHANGED <<transVars, callVars, storeVars>>

\* line 76: a thread left blocked by an earlier timeout sees the peer close
OrphanEnds ==
    /\ orphans > 0 /\ master_fd = "open" /\ pty = <<>> /\ PeerClosed
    /\ orphans' = orphans - 1
    /\ UNCHANGED <<route, sse, frames, gen, closing, tokens, master_fd, slave_fd,
                   child, exit_status, slave_held, returncode, pty, written,
                   child_out, stderr_pipe, stderr_todo, waited>>
    /\ UNCHANGED <<transVars, callVars, storeVars>>

\* the consumer asks for the next token after a token frame: the loop goes on
ResumeAfterToken ==
    /\ sse = "iterating" /\ gen = "yield_token"
    /\ gen' = "reading"
    /\ UNCHANGED <<route, sse, frames, closing, tokens, procVars>>
    /\ UNCHANGED <<transVars, callVars, storeVars>>

\* the consumer closes or abandons the stream while stream_claude is inside
\* the try block: GeneratorExit at the yield of line 83, or CancelledError at
\* the await of line 75; both unwind through the finally block
ConsumerCloses ==
    /\ route = "claude" /\ sse = "iterating" /\ InTry
    /\ closing' = TRUE
    /\ gen' = "finally_close"
    /\ UNCHANGED <<route, sse, frames, tokens, procVars>>
    /\ UNCHANGED <<transVars, callVars, storeVars>>

\* lines 90-93: os.close(master_fd)
FinallyClose ==
    /\ gen = "finally_close"
    /\ master_fd' = "closed"
    /\ gen' = "finally_wait"
    /\ UNCHANGED <<route, sse, frames, closing, tokens, slave_fd, child, exit_status,
                   slave_held, returncode, pty, written, child_out,
                   stderr_pipe, stderr_todo, orphans,
                   waited>>
    /\ UNCHANGED <<transVars, callVars, storeVars>>

\* a variant of FinallyWait that does not wait for the child
FinallyWait_NoWait ==
    /\ gen = "finally_wait"
    /\ waited' = TRUE
    /\ IF closing
       THEN gen' = "closed" /\ sse' = "cancelled"
       ELSE gen' = "after_finally" /\ sse' = sse
    /\ UNCHANGED <<route, frames, closing, tokens, master_fd, slave_fd, child,
                   exit_status, slave_held, returncode, pty, written,
                   child_out, stderr_pipe, stderr_todo,
                   orphans>>
    /\ UNCHANGED <<transVars, callVars, storeVars>>

\* line 94: await proc.wait() returns once the child has been reaped; a
\* closing generator then ends without running lines 96-100
FinallyWait ==
    /\ gen = "finally_wait" /\ returncode # <<>>
    /\ waited' = TRUE
    /\ IF closing
       THEN gen' = "closed" /\ sse' = "cancelled"
       ELSE gen' = "after_finally" /\ sse' = sse
    /\ UNCHANGED <<route, frames, closing, tokens, master_fd, slave_fd, child,
                   exit_status, slave_held, returncode, pty, written,
                   child_out, stderr_pipe, stderr_todo,
                   orphans>>
    /\ UNCHANGED <<transVars, callVars, storeVars>>

\* a variant of AfterFinally that does not strip() the captured stderr
AfterFinally_NoStrip ==
    /\ gen = "after_finally"
    /\ LET err_msg == stderr_pipe
       IN IF returncode # <<0>> /\ err_msg # <<>>
          THEN /\ tokens' = Append(tokens, ErrorToken(err_msg))
               /\ SseOnToken(ErrorToken(err_msg))
               /\ gen' = "yield_error"
          ELSE /\ tokens' = tokens
               /\ SseOnExhausted
               /\ gen' = "returned"
    /\ UNCHANGED <<route, closing, procVars, transVars, callVars, storeVars>>

\* lines 96-100: after a non-zero exit the captured stderr is read and, if
\* anything is left of it after strip(), yielded as a last token; otherwise
\* the generator returns and sse_from_claude yields the done frame
AfterFinally ==
    /\ gen = "after_finally"
    /\ LET err_msg == Strip(stderr_pipe)
       IN IF returncode # <<0>> /\ err_msg # <<>>
          THEN /\ tokens' = Append(tokens, ErrorToken(err_msg))
               /\ SseOnToken(ErrorToken(err_msg))
               /\ gen' = "yield_error"
          ELSE /\ tokens' = tokens
               /\ SseOnExhausted
               /\ gen' = "returned"
    /\ UNCHANGED <<route, closing, procVars, transVars, callVars, storeVars>>

\* the consumer asks for the next token after the error token: line 100 was
\* the last statement, the generator returns
ResumeAfterError ==
    /\ sse = "iterating" /\ gen = "yield_error"
    /\ gen' = "returned"
    /\ SseOnExhausted
    /\ UNCHANGED <<route, closing, tokens, procVars, transVars, callVars, storeVars>>

\* the consumer closes the stream at the yield of line 100, after the finally
\* block has run
ConsumerClosesAtError ==
    /\ sse = "iterating" /\ gen = "yield_error"
    /\ closing' = TRUE
    /\ gen' = "closed"
    /\ sse' = "cancelled"
    /\ UNCHANGED <<route, frames, tokens, procVars, transVars, callVars, storeVars>>

\* --- the child process and the operating system ---

\* the child writes one byte to its stdout, the slave side of the pty; the
\* byte is lost if the read side has been closed
ChildWrites ==
    /\ child = "running" /\ written < MaxOut
    /\ \E b \in OutBytes :
          /\ pty' = IF master_fd = "open" THEN Append(pty, b) ELSE pty
          /\ child_out' = IF master_fd = "open" THEN Append(child_out, b) ELSE child_out
    /\ written' = written + 1
    /\ UNCHANGED <<route, sse, frames, gen, closing, tokens, master_fd, slave_fd,
                   child, exit_status, slave_held, returncode, stderr_pipe, stderr_todo,
                   orphans, waited>>
    /\ UNCHANGED <<transVars, callVars, storeVars>>

\* the child writes one byte of its diagnostics to its stderr pipe
\* (stderr=PIPE, line 65); the write blocks while the pipe is full, and
\* nothing takes bytes out of the pipe before line 97
ChildWritesStderr ==
    /\ child = "running" /\ stderr_todo > 0
    /\ Len(stderr_pipe) < STDERR_CAPACITY
    /\ \E b \in ErrBytes : stderr_pipe' = Append(stderr_pipe, b)
    /\ stderr_todo' = stderr_todo - 1
    /\ UNCHANGED <<route, sse, frames, gen, closing, tokens, master_fd, slave_fd,
                   child, exit_status, slave_held, returncode, pty, written,
                   child_out, orphans, waited>>
    /\ UNCHANGED <<transVars, callVars, storeVars>>

\* the child exits once it has written its diagnostics; a descendant may
\* keep the pty's write side open
ChildExits ==
    /\ child = "running" /\ stderr_todo = 0
    /\ child' = "exited"
    /\ \E st \in ExitStatuses : exit_status' = st
    /\ \E h \in BOOLEAN : slave_held' = h
    /\ UNCHANGED <<route, sse, frames, gen, closing, tokens, master_fd, slave_fd,
                   returncode, pty, written, child_out, stderr_pipe, stderr_todo, orphans,
                   waited>>
    /\ UNCHANGED <<transVars, callVars, storeVars>>

\* the descendant holding the pty's write side exits
DescendantExits ==
    /\ child = "exited" /\ slave_held
    /\ slave_held' = FALSE
    /\ UNCHANGED <<route, sse, frames, gen, closing, tokens, master_fd, slave_fd,
                   child, exit_status, returncode, pty, written, child_out,
                   stderr_pipe, stderr_todo,
                   orphans, waited>>
    /\ UNCHANGED <<transVars, callVars, storeVars>>

\* asyncio's child watcher reaps the exited child and sets proc.returncode
Reap ==
    /\ child = "exited" /\ returncode = <<>>
    /\ returncode' = <<exit_status>>
    /\ UNCHANGED <<route, sse, frames, gen, closing, tokens, master_fd, slave_fd,
                   child, exit_status, slave_held, pty, written, child_out,
                   stderr_pipe, stderr_todo,
                   orphans, waited>>
    /\ UNCHANGED <<transVars, callVars, storeVars>>

\* ------------------------------------------------------------------------
\* translator.py: translate_sections, driven by sse_from_translator
\* ------------------------------------------------------------------------

\* translator.py line 6, scaled to the model's texts
MAX_CHUNK == 3

\* GoogleTranslator(...).translate(text) when it succeeds: the external
\* capability, modelled as marking the text it was given
Translated(text) == <<"[zh]">> \o text

\* lines 22-29 of _translate_text: the sub-chunks of a long text
RECURSIVE TranslateChunks(_, _)
TranslateChunks(paragraphs, current) ==
    IF paragraphs = <<>>
    THEN IF Strip(current) # <<>> THEN <<current>> ELSE <<>>
    ELSE LET para == Head(paragraphs)
         IN IF Len(current) + Len(para) > MAX_CHUNK /\ current # <<>>
            THEN <<current>> \o TranslateChunks(Tail(paragraphs), para \o <<"\n">>)
            ELSE TranslateChunks(Tail(paragraphs), current \o para \o <<"\n">>)

\* the texts _translate_text hands to the translation capability, in order
TranslateCalls(text) ==
    IF Strip(text) = <<>> THEN <<>>
    ELSE IF Len(text) <= MAX_CHUNK THEN <<text>>
    ELSE TranslateChunks(Split(text, <<"\n">>), <<>>)

\* _translate_text when every call succeeds
_translate_text(text) ==
    IF Strip(text) = <<>> THEN text
    ELSE IF Len(text) <= MAX_CHUNK THEN Translated(text)
    ELSE Join([i \in 1..Len(TranslateCalls(text)) |->
                   Translated(TranslateCalls(text)[i])], <<"\n">>)

\* f"[Translation failed: {e}]"
FailureMarker == <<"[Translation failed: ", "e", "]">>

\* a variant of TranslateSection with one try block around both translations
TranslateSection_OneTry(section, hfail, cfail) ==
    LET heading == section.heading
        content == section.content
    IN IF hfail /\ TranslateCalls(heading) # <<>>
       THEN <<heading, FailureMarker>>
       ELSE <<_translate_text(heading),
              IF cfail /\ TranslateCalls(content) # <<>>
              THEN FailureMarker ELSE _translate_text(content)>>

\* lines 40-52 of translate_sections for one section: hfail and cfail say
\* whether a call made for the heading, or for the content, raises
TranslateSection(section, hfail, cfail) ==
    LET heading == section.heading
        content == section.content
        translated_heading ==
            IF hfail /\ TranslateCalls(heading) # <<>>
            THEN heading ELSE _translate_text(heading)
        translated_content ==
            IF cfail /\ TranslateCalls(content) # <<>>
            THEN FailureMarker ELSE _translate_text(content)
    IN <<translated_heading, translated_content>>

\* the section lists a request may be made for
SectionLists ==
    LET h == <<"h">>
        g == <<"g">>
        short == <<"c">>
        long == <<"c", "\n", "d", "d">>
        S(x, y) == [heading |-> x, content |-> y]
    IN { <<S(<<"F">>, <<>>)>>,
         <<S(h, short)>>,
         <<S(h, long)>>,
         <<S(h, short), S(g, long)>>,
         <<S(h, long), S(g, short), S(h, short)>> }

\* lines 37-41 of sse_from_translator: the next section is translated and
\* its frame yielded
TranslateNext ==
    /\ route = "translator" /\ sse = "iterating" /\ tr_idx <= Len(sections)
    /\ \E hfail, cfail \in BOOLEAN :
          LET pair == TranslateSection(sections[tr_idx], hfail, cfail)
              chunk == <<"#", "#", " ">> \o pair[1] \o <<"\n", "\n">>
                           \o pair[2] \o <<"\n", "\n">>
          IN /\ pairs' = Append(pairs, pair)
             /\ tr_failed' = Append(tr_failed, <<hfail, cfail>>)
             /\ frames' = Append(frames, SectionFrame(chunk, pair[1]))
    /\ tr_idx' = tr_idx + 1
    /\ UNCHANGED <<route, sse, gen, closing, tokens, sections, procVars>>
    /\ UNCHANGED <<callVars, storeVars>>

\* line 42 of sse_from_translator: translate_sections is exhausted
TranslateDone ==
    /\ route = "translator" /\ sse = "iterating" /\ tr_idx > Len(sections)
    /\ SseOnExhausted
    /\ UNCHANGED <<route, gen, closing, tokens, procVars, transVars>>
    /\ UNCHANGED <<callVars, storeVars>>

\* the consumer closes the translation stream at one of its yields
ConsumerClosesTranslation ==
    /\ route = "translator" /\ sse = "iterating" /\ tr_idx > 1
    /\ closing' = TRUE
    /\ sse' = "cancelled"
    /\ UNCHANGED <<route, frames, gen, tokens, procVars, transVars>>
    /\ UNCHANGED <<callVars, storeVars>>

\* ------------------------------------------------------------------------
\* One streaming request
\* ------------------------------------------------------------------------

\* api_summarize / api_extract / api_chat return sse_from_claude(prompt);
\* api_translate returns sse_from_translator(paper["sections"], target)
Init ==
    /\ route \in {"claude", "translator"}
    /\ sse = "iterating" /\ frames = <<>>
    /\ gen = IF route = "claude" THEN "start" ELSE "idle"
    /\ closing = FALSE
    /\ master_fd = "unopened" /\ slave_fd = "unopened"
    /\ child = "none" /\ exit_status = 0 /\ slave_held = FALSE
    /\ returncode = <<>> /\ pty = <<>> /\ written = 0 /\ stderr_pipe = <<>>
    /\ child_out = <<>>
    /\ stderr_todo \in IF route = "claude" THEN 0..MaxErr ELSE {0}
    /\ orphans = 0 /\ tokens = <<>> /\ waited = FALSE
    /\ sections \in IF route = "translator" THEN SectionLists ELSE {<<>>}
    /\ tr_idx = 1 /\ pairs = <<>> /\ tr_failed = <<>>
    /\ CallIdle /\ StoreIdle

Next ==
    \/ OpenPty \/ OpenPtyFails \/ Spawn \/ SpawnFails
    \/ ReadData \/ ReadEmpty \/ ReadOSError \/ ReadTimeout
    \/ OrphanRead \/ OrphanEnds
    \/ ResumeAfterToken \/ ConsumerCloses
    \/ FinallyClose \/ FinallyWait \/ AfterFinally
    \/ ResumeAfterError \/ ConsumerClosesAtError
    \/ ChildWrites \/ ChildWritesStderr \/ ChildExits \/ DescendantExits \/ Reap
    \/ TranslateNext \/ TranslateDone \/ ConsumerClosesTranslation

Spec == Init /\ [][Next]_vars

\* ------------------------------------------------------------------------
\* Properties of a streaming request
\* ------------------------------------------------------------------------

\* the positions of the terminal frames: done sentinels and error frames
Terminals == {i \in 1..Len(frames) : frames[i].type \in {"done", "error"}}

DoneFrames == {i \in 1..Len(frames) : frames[i].type = "done"}

LastFrame == frames[Len(frames)]

\* the positions of the error-annotated tokens of stream_claude (the child
\* writes too few bytes here for a block of its output to begin like one)
ErrorTokens == {i \in 1..Len(tokens) : StartsWith(tokens[i], ErrorPrefix)}

\* the data of the token frames, in order
RECURSIVE FrameTokens(_)
FrameTokens(fs) ==
    IF fs = <<>> THEN <<>>
    ELSE IF Head(fs).type = "token" THEN <<Head(fs).data>> \o FrameTokens(Tail(fs))
    ELSE FrameTokens(Tail(fs))

\* stream_claude ran to its end: it is at its last yield or has returned
RanToEnd == gen \in {"yield_error", "returned"}

\* C1: a completed invocation of the bridge under sse_from_claude has emitted
\* exactly one terminal signal (a done sentinel or an error frame), and an
\* invocation that has not completed has emitted none
C1_ExactlyOneTerminal ==
    route = "claude" =>
        /\ Cardinality(Terminals) = (IF sse = "finished" THEN 1 ELSE 0)
        /\ Cardinality(DoneFrames) <= 1

\* the child exited non-zero after output was streamed, and the stream completed
C1_Witness ==
    /\ route = "claude" /\ sse = "finished" /\ returncode = <<1>>
    /\ Len(tokens) >= 2 /\ LastFrame.type = "done"

\* C2 as stated: every stream that was not cancelled ends with the done frame
C2_AlwaysEndsWithDone ==
    sse = "finished" => LastFrame.type = "done"

\* C2 as amended: a stream that was not cancelled ends with the done frame,
\* unless an exception left the producer: then the error frame is the last
\* frame and the stream holds no done frame
C2_EndsWithDoneUnlessRaised ==
    sse = "finished" =>
        IF gen = "raised"
        THEN LastFrame.type = "error" /\ DoneFrames = {}
        ELSE LastFrame.type = "done" /\ Terminals = {Len(frames)}

\* a completed stream in which an error frame was emitted
C2_Witness ==
    sse = "finished" /\ \E i \in 1..Len(frames) : frames[i].type = "error"

C4_ErrorTokenIfDiagnostics ==
    (RanToEnd /\ returncode # <<0>> /\ stderr_pipe # <<>>) => ErrorTokens # {}

\* C4 as amended: a failed child never makes stream_claude raise; once it ran
\* to its end, it has emitted an error-annotated token exactly if the exit
\* status is non-zero and the diagnostic output is non-empty after strip();
\* that token is the stripped output, it is the last token, and every token
\* delivered before it is still delivered, in order, as a frame
C4_ErrorTokenIffStrippedDiagnostics ==
    /\ child # "none" => gen # "raised"
    /\ route = "claude" => FrameTokens(frames) = tokens
    /\ (RanToEnd /\ returncode # <<0>> /\ Strip(stderr_pipe) # <<>>) => ErrorTokens # {}
    /\ ErrorTokens # {} =>
          /\ returncode # <<>> /\ returncode # <<0>> /\ Strip(stderr_pipe) # <<>>
          /\ ErrorTokens = {Len(tokens)}
          /\ tokens[Len(tokens)] = ErrorToken(Strip(stderr_pipe))
          /\ gen \in {"yield_error", "returned", "closed"}

\* the child streamed output, then failed with diagnostics
C4_Witness ==
    /\ gen = "returned" /\ sse = "finished" /\ returncode = <<1>>
    /\ Len(tokens) >= 2 /\ ErrorTokens = {Len(tokens)}
    /\ LastFrame.type = "done"

\* ------------------------------------------------------------------------
\* paper_ingestion.py: detect_sections
\* ------------------------------------------------------------------------

\* A text is a sequence of atoms: "\n", " ", and words, each counted as one
\* character.  "H" is a word of the section vocabulary of HEADING_PATTERNS[0]
\* (capitalised, such as "Methods"), "1" a numeral prefix such as "3." (it
\* matches \d+\.?, [\dIVXivx]+\.? and \d+\.\d*), "T" a capitalised phrase of
\* letters that is no vocabulary word, "x" prose that no pattern matches.
TextAtoms == {"H", "1", "T", "x", " ", "\n"}

\* longest text the segmenter is called with
MaxTextLen == 5

\* "len(trimmed) < 80" of line 206, scaled to the model's lines
HEADING_MAX_LEN == 4

\* characters matched by \w
WordAtoms == {"H", "1", "T", "x"}

\* s without its leading "1" and the whitespace after it, if it has both
AfterNumeral(s) ==
    IF Len(s) >= 2 /\ s[1] = "1" /\ s[2] = " " THEN LStrip(Tail(s)) ELSE <<>>

\* HEADING_PATTERNS[0].match: ^(?:\d+\.?\s+)?(Abstract|...|Summary)\b
MatchesVocabulary(s) ==
    LET AtWord(r) == r # <<>> /\ r[1] = "H" /\ (Len(r) = 1 \/ r[2] \notin WordAtoms)
    IN AtWord(s) \/ AtWord(AfterNumeral(s))

\* HEADING_PATTERNS[1].match and HEADING_PATTERNS[2].match:
\* ^(?:[\dIVXivx]+\.?\s+)[A-Z][A-Za-z\s]{2,50}$ and ^\d+\.\d*\s+[A-Z][A-Za-z\s]{2,50}$
MatchesNumbered(s) ==
    LET r == AfterNumeral(s)
    IN /\ r # <<>> /\ r[1] \in {"T", "H"}
       /\ \A i \in 1..Len(r) : r[i] \in {"T", "H", " "}

\* line 206
is_heading(trimmed) ==
    Len(trimmed) < HEADING_MAX_LEN /\ (MatchesVocabulary(trimmed) \/ MatchesNumbered(trimmed))

Section(heading, content) == [heading |-> heading, content |-> content]

\* a variant of SegmentLines in which a blank line closes the accumulator
RECURSIVE SegmentLines_BlankFlushes(_, _, _)
SegmentLines_BlankFlushes(lines, sections_, current) ==
    IF lines = <<>>
    THEN IF Strip(current.content) # <<>>
         THEN Append(sections_, Section(current.heading, Strip(current.content)))
         ELSE sections_
    ELSE LET trimmed == Strip(Head(lines))
             flushed == IF Strip(current.content) # <<>>
                        THEN Append(sections_,
                                    Section(current.heading, Strip(current.content)))
                        ELSE sections_
         IN IF trimmed = <<>>
            THEN SegmentLines_BlankFlushes(Tail(lines), flushed,
                                           Section(current.heading, <<>>))
            ELSE IF is_heading(trimmed)
            THEN SegmentLines_BlankFlushes(Tail(lines), flushed, Section(trimmed, <<>>))
            ELSE SegmentLines_BlankFlushes(Tail(lines), sections_,
                     Section(current.heading, current.content \o trimmed \o <<" ">>))

\* lines 200-216: the loop over the lines and the flush after it; sections is
\* the list so far, current the accumulator
RECURSIVE SegmentLines(_, _, _)
SegmentLines(lines, sections_, current) ==
    IF lines = <<>>
    THEN IF Strip(current.content) # <<>>
         THEN Append(sections_, Section(current.heading, Strip(current.content)))
         ELSE sections_
    ELSE LET trimmed == Strip(Head(lines))
         IN IF trimmed = <<>>
            THEN SegmentLines(Tail(lines), sections_,
                              Section(current.heading, current.content \o <<"\n">>))
            ELSE IF is_heading(trimmed)
            THEN SegmentLines(Tail(lines),
                              IF Strip(current.content) # <<>>
                              THEN Append(sections_,
                                          Section(current.heading, Strip(current.content)))
                              ELSE sections_,
                              Section(trimmed, <<>>))
            ELSE SegmentLines(Tail(lines), sections_,
                              Section(current.heading, current.content \o trimmed \o <<" ">>))

\* a variant of detect_sections without the fallback section of lines 218-219
detect_sections_NoFallback(text) ==
    SegmentLines(Split(text, <<"\n">>), <<>>, Section(<<"Header">>, <<>>))

\* lines 195-221
detect_sections(text) ==
    LET found == SegmentLines(Split(text, <<"\n">>), <<>>, Section(<<"Header">>, <<>>))
    IN IF found = <<>> THEN <<Section(<<"Full Text">>, Strip(text))>> ELSE found

\* extract_text_from_pdf calls detect_sections(full_text) on any text
InitSegment ==
    /\ StreamIdle /\ StoreIdle
    /\ arg \in {[text |-> t] : t \in SeqsUpTo(TextAtoms, MaxTextLen)}
    /\ result = <<>>

CallDetectSections ==
    /\ result = <<>>
    /\ result' = <<detect_sections(arg.text)>>
    /\ UNCHANGED <<arg, streamVars, storeVars>>

SpecSegment == InitSegment /\ [][CallDetectSections]_vars

\* s without its whitespace
RECURSIVE NoWS(_)
NoWS(s) ==
    IF s = <<>> THEN <<>>
    ELSE IF s[1] \in WS THEN NoWS(Tail(s))
    ELSE <<s[1]>> \o NoWS(Tail(s))

\* the text the sections hold, in order: each heading that was a line of the
\* input, then the section's content
RECURSIVE SectionsText(_)
SectionsText(secs) ==
    IF secs = <<>> THEN <<>>
    ELSE (IF Head(secs).heading \in {<<"Header">>, <<"Full Text">>}
          THEN <<>> ELSE Head(secs).heading)
         \o Head(secs).content \o SectionsText(Tail(secs))

\* C5: the sections, in order, reproduce every non-blank line of the input
\* in the original order (separators apart): none dropped, none duplicated
C5_SegmentationLossless ==
    result # <<>> => NoWS(SectionsText(result[1])) = NoWS(arg.text)

\* every non-blank line of the text is a heading line
RECURSIVE OnlyHeadings(_)
OnlyHeadings(lines) ==
    \/ lines = <<>>
    \/ /\ Strip(Head(lines)) = <<>> \/ is_heading(Strip(Head(lines)))
       /\ OnlyHeadings(Tail(lines))

\* C6: detect_sections returns at least one section for every text; if the
\* text has no line that is neither blank nor a heading (so the loop and the
\* flush emit nothing), the result is the single section "Full Text" holding
\* the stripped text, and otherwise no section is the fallback or empty
C6_AtLeastOneSection ==
    result # <<>> =>
        LET secs == result[1]
        IN /\ Len(secs) >= 1
           /\ IF OnlyHeadings(Split(arg.text, <<"\n">>))
              THEN secs = <<Section(<<"Full Text">>, Strip(arg.text))>>
              ELSE \A i \in 1..Len(secs) :
                      secs[i].heading # <<"Full Text">> /\ secs[i].content # <<>>

\* a text of heading lines only has been segmented
C6_Witness ==
    /\ result # <<>> /\ arg.text = <<"H", "\n", "1", " ", "T">>
    /\ result[1] = <<Section(<<"Full Text">>, arg.text)>>

\* ------------------------------------------------------------------------
\* llm.py: chunk_text
\* ------------------------------------------------------------------------

\* the characters of the texts chunk_text is called with
ChunkAtoms == {"a", " ", "\n"}

\* longest text chunk_text is called with
MaxChunkTextLen == 9

\* largest max_tokens chunk_text is called with
MaxTokens == 2

\* "\n\n"
ParaSep == <<"\n", "\n">>

\* max_chars = max_tokens * 4
MaxChars(max_tokens) == max_tokens * 4

\* a variant of ChunkLoop whose budget test leaves the separators out
RECURSIVE ChunkLoop_SeparatorsNotCounted(_, _, _, _)
ChunkLoop_SeparatorsNotCounted(paragraphs, chunks, current, max_chars) ==
    IF paragraphs = <<>>
    THEN IF Strip(current) # <<>> THEN Append(chunks, Strip(current)) ELSE chunks
    ELSE LET para == Head(paragraphs)
         IN IF Len(Strip(current)) + Len(para) > max_chars /\ current # <<>>
            THEN ChunkLoop_SeparatorsNotCounted(Tail(paragraphs),
                     Append(chunks, Strip(current)), para \o ParaSep, max_chars)
            ELSE ChunkLoop_SeparatorsNotCounted(Tail(paragraphs), chunks,
                     current \o para \o ParaSep, max_chars)

\* lines 27-34: the loop over the paragraphs and the flush after it
RECURSIVE ChunkLoop(_, _, _, _)
ChunkLoop(paragraphs, chunks, current, max_chars) ==
    IF paragraphs = <<>>
    THEN IF Strip(current) # <<>> THEN Append(chunks, Strip(current)) ELSE chunks
    ELSE LET para == Head(paragraphs)
         IN IF Len(current) + Len(para) > max_chars /\ current # <<>>
            THEN ChunkLoop(Tail(paragraphs), Append(chunks, Strip(current)),
                           para \o ParaSep, max_chars)
            ELSE ChunkLoop(Tail(paragraphs), chunks, current \o para \o ParaSep,
                           max_chars)

\* lines 18-35
chunk_text(text, max_tokens) ==
    IF Len(text) <= MaxChars(max_tokens) THEN <<text>>
    ELSE ChunkLoop(Split(text, ParaSep), <<>>, <<>>, MaxChars(max_tokens))

\* chunk_text is called with a text and a positive budget
InitChunk ==
    /\ StreamIdle /\ StoreIdle
    /\ arg \in {[text |-> t, max_tokens |-> n] :
                   t \in SeqsUpTo(ChunkAtoms, MaxChunkTextLen), n \in 1..MaxTokens}
    /\ result = <<>>

CallChunkText ==
    /\ result = <<>>
    /\ result' = <<chunk_text(arg.text, arg.max_tokens)>>
    /\ UNCHANGED <<arg, streamVars, storeVars>>

SpecChunk == InitChunk /\ [][CallChunkText]_vars

\* s contains the paragraph separator
HasParaSep(s) == \E i \in 1..(Len(s) - 1) : s[i] = "\n" /\ s[i + 1] = "\n"

\* C7: every chunk is at most max_chars long, counting the separators it
\* contains, unless it is a single paragraph of the text that alone exceeds
\* max_chars
C7_ChunkBudget ==
    result # <<>> =>
        LET chunks == result[1]
            max_chars == 4 * arg.max_tokens
            paragraphs == Split(arg.text, ParaSep)
        IN \A i \in 1..Len(chunks) :
              \/ Len(chunks[i]) <= max_chars
              \/ /\ ~HasParaSep(chunks[i])
                 /\ \E j \in 1..Len(paragraphs) :
                       Len(paragraphs[j]) > max_chars /\ chunks[i] = Strip(paragraphs[j])

\* the text was cut into several chunks, and a chunk of two paragraphs
\* fills the budget exactly
C7_Witness ==
    /\ result # <<>> /\ Len(result[1]) >= 2
    /\ \E i \in 1..Len(result[1]) :
          HasParaSep(result[1][i]) /\ Len(result[1][i]) = 4 * arg.max_tokens

\* ------------------------------------------------------------------------
\* llm.py: get_paper_context
\* ------------------------------------------------------------------------

\* largest max_tokens get_paper_context is called with
MaxContextTokens == 7

\* most sections of a paper
MaxSections == 2

\* f"Abstract: {paper['abstract']}\n\n"
RenderAbstract(abstract) ==
    <<"A", "b", "s", "t", "r", "a", "c", "t", ":", " ">> \o abstract \o ParaSep

\* f"## {s['heading']}\n{s['content']}\n\n"
RenderSection(sec) ==
    <<"#", "#", " ">> \o sec.heading \o <<"\n">> \o sec.content \o ParaSep

RECURSIVE RenderSections(_)
RenderSections(secs) ==
    IF secs = <<>> THEN <<>>
    ELSE RenderSection(Head(secs)) \o RenderSections(Tail(secs))

\* lines 39-43: the text of the paper
RenderPaper(paper) ==
    (IF paper.abstract # <<>> THEN RenderAbstract(paper.abstract) ELSE <<>>)
        \o RenderSections(paper.sections)

\* a variant of get_paper_context that cuts the text at the budget
get_paper_context_HardCut(paper, max_tokens) ==
    Take(RenderPaper(paper), max_tokens * 4)

\* lines 38-46
get_paper_context(paper, max_tokens) ==
    LET text == RenderPaper(paper)
        chunks == chunk_text(text, max_tokens)
    IN IF chunks # <<>> THEN chunks[1] ELSE Take(text, max_tokens * 4)

\* the abstracts and section contents of stored papers: an abstract has no
\* line break (fetch_arxiv_metadata and _extract_abstract replace them), a
\* section's content is stripped and holds "\n" for each blank line
ContextAbstracts == {<<>>, <<"x">>}

ContextContents == {<<"c">>, <<"c", " ", "\n", "\n", "d">>, <<"c", "c", "c", "c", "c", "c">>}

ContextSections == {Section(<<"h">>, c) : c \in ContextContents}

\* api_summarize, api_extract and api_chat call get_paper_context on a
\* stored paper
InitContext ==
    /\ StreamIdle /\ StoreIdle
    /\ arg \in {[paper |-> [abstract |-> a, sections |-> ss], max_tokens |-> n] :
                   a \in ContextAbstracts,
                   ss \in SeqsUpTo(ContextSections, MaxSections),
                   n \in 1..MaxContextTokens}
    /\ result = <<>>

CallGetPaperContext ==
    /\ result = <<>>
    /\ result' = <<get_paper_context(arg.paper, arg.max_tokens)>>
    /\ UNCHANGED <<arg, streamVars, storeVars>>

SpecContext == InitContext /\ [][CallGetPaperContext]_vars

\* the first k paragraphs of a text, with their separators
ParaHead(paragraphs, k) == Join(SubSeq(paragraphs, 1, k), ParaSep)

\* C8: get_paper_context returns the whole rendered text when it fits the
\* budget; otherwise it returns the longest leading run of whole paragraphs
\* that fits the budget, or the first paragraph alone if that is over the
\* budget: a head of the text, ending at a paragraph boundary
C8_ContextIsFirstChunk ==
    result # <<>> =>
        LET text == RenderPaper(arg.paper)
            max_chars == 4 * arg.max_tokens
            paragraphs == Split(text, ParaSep)
            Accepted(k) == k = 1 \/ Len(ParaHead(paragraphs, k)) <= max_chars
        IN IF Len(text) <= max_chars
           THEN result[1] = text
           ELSE \E k \in 1..Len(paragraphs) :
                   /\ \A j \in 1..k : Accepted(j)
                   /\ k < Len(paragraphs) => ~Accepted(k + 1)
                   /\ result[1] = RStrip(ParaHead(paragraphs, k))
                   /\ StartsWith(text, result[1])

\* the text was over the budget, and the context holds more than one
\* paragraph but not all of them
C8_Witness ==
    /\ result # <<>> /\ Len(RenderPaper(arg.paper)) > 4 * arg.max_tokens
    /\ HasParaSep(result[1])
    /\ Len(result[1]) + 4 < Len(RenderPaper(arg.paper))

\* ------------------------------------------------------------------------
\* paper_ingestion.py: classify_url
\* ------------------------------------------------------------------------

\* A url is a sequence of atoms, each a piece of text one of the patterns of
\* classify_url tells apart:
\*   " "            whitespace
\*   "http://h/"    a scheme and a host that no pattern names
\*   "arxiv.org/abs/"           text matching arxiv\.org/(?:abs|pdf)/
\*   "huggingface.co/papers/"   text matching huggingface\.co/papers/
\*   "2301.00234"   an identifier matching \d{4}\.\d{4,5}
\*   "v2"           a version suffix matching v\d+
\*   "arXiv"        the literal text of the ADS pattern
\*   "230100234"    nine digits, matching (\d{2})(\d{2})(\d{4,5})
\*   "10.1234/"     text matching 10\.\d{4,}/
\*   "x"            other text without whitespace
\*   ".pdf"         the extension, in either case
\*   "?q"           a query string
UrlAtoms == {" ", "http://h/", "arxiv.org/abs/", "huggingface.co/papers/",
             "2301.00234", "v2", "arXiv", "230100234", "10.1234/", "x", ".pdf", "?q"}

\* most atoms of a url
MaxUrlLen == 4

\* the positions at which url holds atom a followed by atom b
Pairs(url, a, b) == {i \in 1..(Len(url) - 1) : url[i] = a /\ url[i + 1] = b}

FirstOf(S) == CHOOSE i \in S : \A j \in S : i <= j

\* line 35: re.match(r'^\d{4}\.\d{4,5}(v\d+)?$', url)
IsBareId(url) == url = <<"2301.00234">> \/ url = <<"2301.00234", "v2">>

\* line 39: re.search(r'arxiv\.org/(?:abs|pdf)/(\d{4}\.\d{4,5}(?:v\d+)?)', url)
ArxivOrgMatches(url) == Pairs(url, "arxiv.org/abs/", "2301.00234")

ArxivOrgId(url) ==
    LET i == FirstOf(ArxivOrgMatches(url))
    IN IF Len(url) >= i + 2 /\ url[i + 2] = "v2"
       THEN <<"2301.00234", "v2">> ELSE <<"2301.00234">>

\* line 44: re.search(r'arXiv(\d{2})(\d{2})(\d{4,5})', url)
AdsMatches(url) == Pairs(url, "arXiv", "230100234")

\* line 51: re.search(r'huggingface\.co/papers/(\d{4}\.\d{4,5})', url)
HuggingFaceMatches(url) == Pairs(url, "huggingface.co/papers/", "2301.00234")

\* line 56: re.search(r'(10\.\d{4,}/\S+)', url)
DoiMatches(url) == {i \in 1..(Len(url) - 1) : url[i] = "10.1234/" /\ url[i + 1] # " "}

\* the match of \S+ : the atoms up to the next whitespace
RECURSIVE NonSpaceRun(_)
NonSpaceRun(s) ==
    IF s = <<>> \/ s[1] = " " THEN <<>> ELSE <<s[1]>> \o NonSpaceRun(Tail(s))

DoiOf(url) == NonSpaceRun(Drop(url, FirstOf(DoiMatches(url)) - 1))

\* line 61: re.search(r'\.pdf(\?.*)?$', url, re.I)
IsPdfUrl(url) ==
    \E i \in 1..Len(url) :
        url[i] = ".pdf" /\ (i = Len(url) \/ url[i + 1] = "?q")

\* line 65: url.startswith("http")
IsHttp(url) == url # <<>> /\ url[1] = "http://h/"

\* a variant of ClassifyStripped that tests the PDF extension before the DOI
ClassifyStripped_PdfBeforeDoi(url) ==
    IF url = <<>> THEN [type |-> "invalid", value |-> <<>>]
    ELSE IF IsBareId(url) THEN [type |-> "arxiv", value |-> url]
    ELSE IF ArxivOrgMatches(url) # {} THEN [type |-> "arxiv", value |-> ArxivOrgId(url)]
    ELSE IF AdsMatches(url) # {} THEN [type |-> "arxiv", value |-> <<"2301.00234">>]
    ELSE IF HuggingFaceMatches(url) # {} THEN [type |-> "arxiv", value |-> <<"2301.00234">>]
    ELSE IF IsPdfUrl(url) THEN [type |-> "pdf", value |-> url]
    ELSE IF DoiMatches(url) # {} THEN [type |-> "doi", value |-> DoiOf(url)]
    ELSE IF IsHttp(url) THEN [type |-> "unknown", value |-> url]
    ELSE [type |-> "invalid", value |-> <<>>]

\* lines 31-68, on the stripped url; value is the descriptor's "id", "doi"
\* or "url".  The ADS pattern rebuilds the identifier from the digits:
\* f"{m.group(1)}{m.group(2)}.{m.group(3)}"
ClassifyStripped(url) ==
    IF url = <<>> THEN [type |-> "invalid", value |-> <<>>]
    ELSE IF IsBareId(url) THEN [type |-> "arxiv", value |-> url]
    ELSE IF ArxivOrgMatches(url) # {} THEN [type |-> "arxiv", value |-> ArxivOrgId(url)]
    ELSE IF AdsMatches(url) # {} THEN [type |-> "arxiv", value |-> <<"2301.00234">>]
    ELSE IF HuggingFaceMatches(url) # {} THEN [type |-> "arxiv", value |-> <<"2301.00234">>]
    ELSE IF DoiMatches(url) # {} THEN [type |-> "doi", value |-> DoiOf(url)]
    ELSE IF IsPdfUrl(url) THEN [type |-> "pdf", value |-> url]
    ELSE IF IsHttp(url) THEN [type |-> "unknown", value |-> url]
    ELSE [type |-> "invalid", value |-> <<>>]

\* lines 29-68
classify_url(url) == ClassifyStripped(Strip(url))

\* load_paper calls classify_url on the url of the request, any string
InitClassify ==
    /\ StreamIdle /\ StoreIdle
    /\ arg \in {[url |-> u] : u \in SeqsUpTo(UrlAtoms, MaxUrlLen)}
    /\ result = <<>>

CallClassifyUrl ==
    /\ result = <<>>
    /\ result' = <<classify_url(arg.url)>>
    /\ UNCHANGED <<arg, streamVars, storeVars>>

SpecClassify == InitClassify /\ [][CallClassifyUrl]_vars

\* the url holds a bare arXiv-shaped token
HasArxivToken(url) == \E i \in 1..Len(url) : url[i] = "2301.00234"

\* one of the arXiv patterns of lines 35-53 matches the stripped url
MatchesArxivPattern(url) ==
    \/ IsBareId(url) \/ ArxivOrgMatches(url) # {}
    \/ AdsMatches(url) # {} \/ HuggingFaceMatches(url) # {}

MaxStores == 3

\* longest fullText of a paper
MaxFullTextLen == 3

\* paper["fullText"][:500] of line 21, scaled to the model's texts
FINGERPRINT_PREFIX == 2

\* the number of values of the digest
DigestValues == 5

FullTextAtoms == {"a", "b"}

\* a paper as load_paper builds it: the extracted text, and the fields that
\* come from the arXiv metadata when its fetch succeeds and from heuristics
\* over the text when it does not (title stands for them)
Papers ==
    {[fullText |-> t, title |-> m] :
        t \in SeqsUpTo(FullTextAtoms, MaxFullTextLen), m \in {"metadata", "heuristic"}}

PaperIds == 0..(DigestValues - 1)

\* hashlib.md5(data).hexdigest()[:12]: a digest of the data into a space
\* smaller than that of the data, so that distinct data may collide
RECURSIVE Md5(_)
Md5(data) ==
    IF data = <<>> THEN 0
    ELSE ((IF Head(data) = "a" THEN 1 ELSE 2) + 3 * Md5(Tail(data))) % DigestValues

\* line 21: pid
Fingerprint(paper) == Md5(Take(paper.fullText, FINGERPRINT_PREFIX))

\* a variant of StoredPapers that keeps the entry a key already has
StoredPapers_KeepFirst(papers, paper) ==
    LET pid == Fingerprint(paper)
    IN IF pid \in DOMAIN papers THEN papers
       ELSE [k \in DOMAIN papers \cup {pid} |->
                IF k = pid
                THEN [fullText |-> paper.fullText, title |-> paper.title, id |-> pid]
                ELSE papers[k]]

\* lines 21-23: the dict after paper["id"] = pid; _papers[pid] = paper
StoredPapers(papers, paper) ==
    LET pid == Fingerprint(paper)
    IN [k \in DOMAIN papers \cup {pid} |->
           IF k = pid
           THEN [fullText |-> paper.fullText, title |-> paper.title, id |-> pid]
           ELSE papers[k]]

\* lines 16-17: _papers.get(paper_id); <<>> is None
get_paper(paper_id) ==
    IF paper_id \in DOMAIN _papers THEN <<_papers[paper_id]>> ELSE <<>>

\* lines 20-24
store_paper ==
    /\ Len(store_log) < MaxStores
    /\ \E paper \in Papers :
          /\ _papers' = StoredPapers(_papers, paper)
          /\ store_log' = Append(store_log, [paper |-> paper, pid |-> Fingerprint(paper)])
    /\ UNCHANGED <<streamVars, callVars, loads, loop>>

\* a request handler looks a paper up
GetPaper ==
    /\ \E paper_id \in PaperIds :
          /\ arg' = [paper_id |-> paper_id]
          /\ result' = <<get_paper(paper_id)>>
    /\ UNCHANGED <<streamVars, storeVars>>

InitStore == StreamIdle /\ CallIdle /\ StoreIdle

NextStore == store_paper \/ GetPaper

SpecStore == InitStore /\ [][NextStore]_vars

\* the store_paper calls that returned pid
CallsFor(pid) == {i \in 1..Len(store_log) : store_log[i].pid = pid}

LastOf(S) == CHOOSE i \in S : \A j \in S : j <= i

\* C10: papers with the same source text get the same id at every call, and
\* get_paper(id) is the paper of the last store_paper call that returned id,
\* with nothing of an earlier entry merged in, and None if there was no such
\* call; so a call changes no key but its own
C10_IdempotentLastWriteWins ==
    /\ \A i, j \in 1..Len(store_log) :
          store_log[i].paper.fullText = store_log[j].paper.fullText
              => store_log[i].pid = store_log[j].pid
    /\ \A pid \in PaperIds :
          IF CallsFor(pid) = {} THEN get_paper(pid) = <<>>
          ELSE LET last == store_log[LastOf(CallsFor(pid))].paper
               IN get_paper(pid) =
                     <<[fullText |-> last.fullText, title |-> last.title, id |-> pid]>>

\* the same text was stored twice, with different metadata, and then a paper
\* with another id: the second entry replaced the first
C10_Witness ==
    /\ Len(store_log) = 3
    /\ store_log[1].paper.fullText = store_log[2].paper.fullText
    /\ store_log[1].paper.title = "metadata" /\ store_log[2].paper.title = "heuristic"
    /\ store_log[3].pid # store_log[2].pid
    /\ get_paper(store_log[1].pid) # <<>>
    /\ get_paper(store_log[1].pid)[1].title = "heuristic"

\* ------------------------------------------------------------------------
\* Properties of translate_sections
\* ------------------------------------------------------------------------

\* the heading of section i is translated by a call that raised
HeadingFailed(i) == tr_failed[i][1] /\ TranslateCalls(sections[i].heading) # <<>>

\* the content of section i is translated by a call that raised
ContentFailed(i) == tr_failed[i][2] /\ TranslateCalls(sections[i].content) # <<>>

\* the token of the frame sse_from_translator builds from a pair
SectionChunk(pair) ==
    <<"#", "#", " ">> \o pair[1] \o <<"\n", "\n">> \o pair[2] \o <<"\n", "\n">>

\* C11: translate_sections yields one pair per section, in the order of the
\* sections, whatever calls fail: the pair of a section has the original
\* heading if the heading's translation failed and its translation if not,
\* and the failure marker as content if the content's translation failed
\* and its translation if not, whatever happened to the other sections; no
\* failure ends the iteration, and each pair is sent as one frame
C11_PerSectionIsolation ==
    route = "translator" =>
        /\ Len(pairs) = tr_idx - 1 /\ Len(pairs) <= Len(sections)
        /\ \A i \in 1..Len(frames) : frames[i].type # "error"
        /\ sse = "finished" =>
              Len(pairs) = Len(sections) /\ Len(frames) = Len(sections) + 1
        /\ \A i \in 1..Len(pairs) :
              /\ pairs[i][1] = IF HeadingFailed(i) THEN sections[i].heading
                               ELSE _translate_text(sections[i].heading)
              /\ pairs[i][2] = IF ContentFailed(i) THEN FailureMarker
                               ELSE _translate_text(sections[i].content)
              /\ frames[i] = SectionFrame(SectionChunk(pairs[i]), pairs[i][1])

\* three sections were translated to the end: the content of the first
\* failed and so did the heading of the second, and the third, after them,
\* is translated in full
C11_Witness ==
    /\ route = "translator" /\ sse = "finished" /\ Len(sections) = 3
    /\ tr_failed = <<<<FALSE, TRUE>>, <<TRUE, FALSE>>, <<FALSE, FALSE>>>>
    /\ pairs[1][2] = FailureMarker
    /\ pairs[2][1] = sections[2].heading
    /\ pairs[2][2] = _translate_text(sections[2].content)
    /\ pairs[3] = <<_translate_text(sections[3].heading),
                    _translate_text(sections[3].content)>>

\* ------------------------------------------------------------------------
\* paper_ingestion.py, main.py: the load operation
\* ------------------------------------------------------------------------

\* the requests served concurrently by the event loop
LoadTasks == {1, 2}

\* the urls of the requests: an arXiv id, a page of an unknown host, a
\* direct PDF link, and a string that is no url
LoadUrls ==
    { <<"2301.00234">>, <<"http://h/">>, <<"http://h/", ".pdf">>, <<"x">> }

\* what the resolver process may have written to stdout when communicate()
\* returns ("arxiv:" and "pdf:" are one atom each)
ResolverReplies ==
    { <<"none", "\n">>,
      <<"arxiv:", " ", "2301.00234", "\n">>,
      <<"pdf:", "http://h/", ".pdf">>,
      <<"x", "\n", "arxiv:", "x", "\n", "pdf:", "x">> }

\* the texts extract_text_from_pdf may find in a downloaded document
DocumentTexts == { <<"a", "a", "a">>, <<"a", "a", "b">>, <<"b">> }

\* lines 100-112 of resolve_url_with_claude, over the lines of the reply
RECURSIVE ParseLines(_)
ParseLines(lines) ==
    IF lines = <<>> THEN [type |-> "invalid", value |-> <<>>]
    ELSE LET line == Strip(Head(lines))
         IN IF StartsWith(line, <<"arxiv:">>)
            THEN IF IsBareId(Strip(Drop(line, 1)))
                 THEN [type |-> "arxiv", value |-> Strip(Drop(line, 1))]
                 ELSE ParseLines(Tail(lines))
            ELSE IF StartsWith(line, <<"pdf:">>) /\ IsHttp(Strip(Drop(line, 1)))
            THEN [type |-> "pdf", value |-> Strip(Drop(line, 1))]
            ELSE ParseLines(Tail(lines))

\* lines 96-112: the descriptor parsed from the stdout of the resolver
ParseReply(stdout) == ParseLines(Split(Strip(stdout), <<"\n">>))

\* an exception that leaves load_paper
Raised(type, msg) == [type |-> type, msg |-> msg]

CouldNotIdentify == Raised("ValueError", "Could not identify paper from this URL.")
PdfTooLarge == Raised("ValueError", "PDF too large (>50MB)")
ReturnedHtml == Raised("ValueError", "URL returned HTML, not a PDF.")

\* main.py lines 64-68: the response api_load_paper gives for an exception
ErrorResponse(exc) ==
    IF exc.type = "ValueError"
    THEN [status |-> 400, detail |-> <<exc.msg>>]
    ELSE [status |-> 500, detail |-> <<"Failed to load paper: ", exc.msg>>]

\* a request as it arrives
NewLoad(url) ==
    [pc |-> "start", url |-> url, classified |-> <<>>, resolver |-> "unused",
     reply |-> <<>>, metadata |-> "none", fetch |-> "none", pdf_url |-> <<>>,
     paper |-> <<>>, response |-> <<>>]

\* lines 239-255: where load_paper goes once it holds a descriptor
Classified(task, descriptor) ==
    [task EXCEPT
        !.classified = <<descriptor>>,
        !.pc = IF descriptor.type = "arxiv" THEN "fetch_metadata" ELSE "download",
        !.pdf_url = IF descriptor.type = "doi"
                    THEN <<"https://doi.org/">> \o descriptor.value
                    ELSE IF descriptor.type = "pdf" THEN descriptor.value
                    ELSE <<>>]

\* the request ends with the response to an exception
Fails(task, exc) == [task EXCEPT !.pc = "responded", !.response = <<ErrorResponse(exc)>>]
\* what an action of a load request leaves alone
LoadFrame == UNCHANGED <<streamVars, callVars, loop>>

\* load_paper lines 227-230, up to its first await
LoadClassify ==
    /\ \E t \in LoadTasks :
          /\ loads[t].pc = "start"
          /\ LET descriptor == classify_url(loads[t].url)
             IN loads' = [loads EXCEPT ![t] =
                   IF descriptor.type \in {"unknown", "invalid"}
                   THEN [@ EXCEPT !.pc = "spawn_resolver", !.classified = <<descriptor>>]
                   ELSE Classified(@, descriptor)]
    /\ UNCHANGED <<_papers, store_log>> /\ LoadFrame

\* resolve_url_with_claude lines 89-94: the resolver process is started
SpawnResolver ==
    /\ \E t \in LoadTasks :
          /\ loads[t].pc = "spawn_resolver"
          /\ loads' = [loads EXCEPT ![t].pc = "communicate"]
    /\ UNCHANGED <<_papers, store_log>> /\ LoadFrame

\* create_subprocess_exec raises (no claude executable): nothing catches it
\* before api_load_paper
SpawnResolverFails ==
    /\ \E t \in LoadTasks :
          /\ loads[t].pc = "spawn_resolver"
          /\ loads' = [loads EXCEPT ![t] =
                Fails([@ EXCEPT !.resolver = "spawn_failed"],
                      Raised("FileNotFoundError", "claude"))]
    /\ UNCHANGED <<_papers, store_log>> /\ LoadFrame

\* lines 95-112 and 233-237: communicate() returns within the 30 seconds,
\* the process having exited with some status; its stdout is parsed
ResolverReturns ==
    /\ \E t \in LoadTasks, status \in {0, 1}, stdout \in ResolverReplies :
          /\ loads[t].pc = "communicate"
          /\ LET descriptor == ParseReply(stdout)
                 task == [loads[t] EXCEPT
                             !.resolver = IF status = 0 THEN "exit_zero" ELSE "exit_nonzero",
                             !.reply = stdout]
             IN loads' = [loads EXCEPT ![t] =
                   IF descriptor.type = "invalid"
                   THEN Fails([task EXCEPT !.classified = <<descriptor>>], CouldNotIdentify)
                   ELSE Classified(task, descriptor)]
    /\ UNCHANGED <<_papers, store_log>> /\ LoadFrame

\* line 95: wait_for raises TimeoutError after 30 seconds; nothing catches
\* it before api_load_paper
ResolverTimesOut ==
    /\ \E t \in LoadTasks :
          /\ loads[t].pc = "communicate"
          /\ loads' = [loads EXCEPT ![t] =
                Fails([@ EXCEPT !.resolver = "timeout"], Raised("TimeoutError", ""))]
    /\ UNCHANGED <<_papers, store_log>> /\ LoadFrame

\* load_paper lines 245-249: the metadata fetch returns or raises; a
\* failure is logged and the load goes on without metadata
FetchMetadata ==
    /\ \E t \in LoadTasks, outcome \in {"ok", "failed"} :
          /\ loads[t].pc = "fetch_metadata"
          /\ loads' = [loads EXCEPT
                ![t].pc = "download", ![t].metadata = outcome,
                ![t].pdf_url = <<"https://arxiv.org/pdf/">> \o loads[t].classified[1].value
                                   \o <<".pdf">>]
    /\ UNCHANGED <<_papers, store_log>> /\ LoadFrame

\* lines 259-275 and main.py 56-63: the download returns a document, which
\* is extracted, stored and returned without another await
DownloadAndStore ==
    /\ \E t \in LoadTasks, text \in DocumentTexts :
          /\ loads[t].pc = "download"
          /\ LET paper == [fullText |-> text,
                           title |-> IF loads[t].metadata = "ok"
                                     THEN "metadata" ELSE "heuristic"]
                 pid == Fingerprint(paper)
             IN /\ _papers' = StoredPapers(_papers, paper)
                /\ store_log' = Append(store_log, [paper |-> paper, pid |-> pid])
                /\ loads' = [loads EXCEPT
                      ![t].pc = "responded", ![t].fetch = "ok",
                      ![t].paper = <<StoredPapers(_papers, paper)[pid]>>,
                      ![t].response = <<[status |-> 200, detail |-> <<>>]>>]
    /\ LoadFrame

\* line 159: the download returns bytes fitz cannot open
DownloadUnparseable ==
    /\ \E t \in LoadTasks :
          /\ loads[t].pc = "download"
          /\ loads' = [loads EXCEPT ![t] =
                Fails([@ EXCEPT !.fetch = "ok"], Raised("FileDataError", "Failed to open stream"))]
    /\ UNCHANGED <<_papers, store_log>> /\ LoadFrame

\* download_pdf lines 143-144: the body is over the size ceiling
DownloadTooLarge ==
    /\ \E t \in LoadTasks :
          /\ loads[t].pc = "download"
          /\ loads' = [loads EXCEPT ![t] = Fails([@ EXCEPT !.fetch = "too_large"], PdfTooLarge)]
    /\ UNCHANGED <<_papers, store_log>> /\ LoadFrame

\* download_pdf lines 147-151: an HTML page is served instead of the document
DownloadHtml ==
    /\ \E t \in LoadTasks :
          /\ loads[t].pc = "download"
          /\ loads' = [loads EXCEPT ![t] = Fails([@ EXCEPT !.fetch = "html"], ReturnedHtml)]
    /\ UNCHANGED <<_papers, store_log>> /\ LoadFrame

\* download_pdf lines 141-142: the request fails, or raise_for_status raises
\* for a status that is not 2xx
DownloadFails ==
    /\ \E t \in LoadTasks :
          /\ loads[t].pc = "download"
          /\ loads' = [loads EXCEPT ![t] =
                Fails([@ EXCEPT !.fetch = "network"], Raised("HTTPError", "upstream"))]
    /\ UNCHANGED <<_papers, store_log>> /\ LoadFrame

InitLoad ==
    /\ StreamIdle /\ CallIdle
    /\ _papers = <<>> /\ store_log = <<>> /\ loop = <<>>
    /\ loads \in [LoadTasks -> {NewLoad(u) : u \in LoadUrls}]

NextLoad ==
    \/ LoadClassify \/ SpawnResolver \/ SpawnResolverFails
    \/ ResolverReturns \/ ResolverTimesOut \/ FetchMetadata
    \/ DownloadAndStore \/ DownloadUnparseable
    \/ DownloadTooLarge \/ DownloadHtml \/ DownloadFails

SpecLoad == InitLoad /\ [][NextLoad]_vars

\* C12: when the resolver call of a request timed out, or the resolver
\* process exited with a non-zero status, the request is answered with the
\* validation failure (status 400, "Could not identify paper") and nothing
\* was taken from the output of the resolver
C12_ResolverFailureIsUnresolved ==
    \A t \in LoadTasks :
        loads[t].resolver \in {"timeout", "exit_nonzero"} =>
            /\ loads[t].pc = "responded"
            /\ loads[t].response = <<ErrorResponse(CouldNotIdentify)>>
            /\ loads[t].classified = <<[type |-> "invalid", value |-> <<>>]>>

\* C13: a request whose download failed (body over the size ceiling, HTML
\* served, network or status failure) is answered with status 500 and the
\* cause in the message, and a request answered with status 400 is one whose
\* url could not be classified or resolved, not one whose download failed
C13_FetchFailuresAreServerSide ==
    \A t \in LoadTasks :
        loads[t].pc = "responded" =>
            LET response == loads[t].response[1]
            IN /\ loads[t].fetch \in {"too_large", "html", "network"} =>
                     /\ response.status = 500
                     /\ Len(response.detail) = 2
               /\ response.status = 400 =>
                     /\ loads[t].fetch = "none"
                     /\ loads[t].classified = <<[type |-> "invalid", value |-> <<>>]>>

\* ------------------------------------------------------------------------
\* llm.py: _strip_ansi applied to terminal output
\* ------------------------------------------------------------------------

\* most items (characters, control sequences) of a text
MaxItems == 3

\* a visible character, and a line feed
VisibleItems == { <<"a">>, <<"\n">> }

\* what a terminal program writes besides visible characters: a carriage
\* return, a colour sequence (SGR), a cursor movement (CUP), and the
\* title-setting sequence OSC 0 in its two forms, ended by BEL (xterm) and
\* ended by the string terminator ESC \ (ECMA-48)
ControlItems ==
    { <<"\r">>,
      <<ESC, "[", "1", ";", "2", "m">>,
      <<ESC, "[", "H">>,
      <<ESC, "]", "0", ";", "a", BEL>>,
      <<ESC, "]", "0", ";", "a", ESC, "\\">> }

\* the visible characters of a text given by its items, in order
RECURSIVE VisibleOf(_)
VisibleOf(items) ==
    IF items = <<>> THEN <<>>
    ELSE (IF Head(items) \in VisibleItems THEN Head(items) ELSE <<>>)
             \o VisibleOf(Tail(items))

InitAnsi ==
    /\ StreamIdle /\ StoreIdle
    /\ arg \in {[items |-> t] : t \in SeqsUpTo(VisibleItems \cup ControlItems, MaxItems)}
    /\ result = <<>>

\* stream_claude line 81 cleans each decoded block
CallStripAnsi ==
    /\ result = <<>>
    /\ result' = <<_strip_ansi(Concat(arg.items))>>
    /\ UNCHANGED <<arg, streamVars, storeVars>>

SpecAnsi == InitAnsi /\ [][CallStripAnsi]_vars

\* C14: the cleaned text of a text made of visible characters, cursor
\* movements, colour sequences, title-setting sequences and carriage
\* returns holds no escape byte and is the visible characters of the text,
\* unchanged and in their order
C14_CleanKeepsVisibleOnly ==
    result # <<>> =>
        /\ \A i \in 1..Len(result[1]) : result[1][i] # ESC
        /\ result[1] = VisibleOf(arg.items)

\* ------------------------------------------------------------------------
\* paper_ingestion.py: detect_sections, line by line
\* ------------------------------------------------------------------------

\* most lines of a text
MaxLines == 5

\* the lines of a text: a blank line, a line of blanks, prose, prose to be
\* trimmed, a heading of the vocabulary, a numbered heading
LineKinds ==
    { <<>>, <<" ">>, <<"x">>, <<" ", "x", "x">>, <<"H">>, <<"1", " ", "T">> }

InitLines ==
    /\ StreamIdle /\ StoreIdle
    /\ arg \in {[text |-> Join(ls, <<"\n">>)] : ls \in SeqsUpTo(LineKinds, MaxLines)}
    /\ result = <<>>

SpecLines == InitLines /\ [][CallDetectSections]_vars

\* line i of the text is a heading line, a prose line
IsHeadingLine(lines, i) == Strip(lines[i]) # <<>> /\ is_heading(Strip(lines[i]))

IsProseLine(lines, i) == Strip(lines[i]) # <<>> /\ ~is_heading(Strip(lines[i]))

\* where an accumulator starts: before the text (0), and at each heading line
AccumulatorStarts(lines) == {0} \cup {i \in 1..Len(lines) : IsHeadingLine(lines, i)}

\* the first heading line after h, or the end of the text
NextHeading(lines, h) ==
    LET later == {j \in AccumulatorStarts(lines) : j > h}
    IN IF later = {} THEN Len(lines) + 1
       ELSE CHOOSE j \in later : \A k \in later : j <= k

\* the lines from h to the next heading, as the accumulator holds them
RECURSIVE Accumulated(_)
Accumulated(lines) ==
    IF lines = <<>> THEN <<>>
    ELSE (IF Strip(Head(lines)) = <<>> THEN <<"\n">> ELSE Strip(Head(lines)) \o <<" ">>)
             \o Accumulated(Tail(lines))

\* the section of the accumulator that starts at h
SectionAt(lines, h) ==
    Section(IF h = 0 THEN <<"Header">> ELSE Strip(lines[h]),
            Strip(Accumulated(SubSeq(lines, h + 1, NextHeading(lines, h) - 1))))

\* the accumulators that hold a prose line
Emitting(lines) ==
    {h \in AccumulatorStarts(lines) :
        \E i \in (h + 1)..(NextHeading(lines, h) - 1) : IsProseLine(lines, i)}

\* the elements of a set of numbers in increasing order
RECURSIVE Ascending(_)
Ascending(S) ==
    IF S = {} THEN <<>>
    ELSE LET m == CHOOSE i \in S : \A j \in S : i <= j
         IN <<m>> \o Ascending(S \ {m})

\* C15: the sections of a text are, in order, one for each heading line (and
\* one for the start of the text, headed "Header") that has a prose line
\* before the next heading: its heading is that heading line and its content
\* is the lines up to the next heading, blank lines kept inside it; a blank
\* line starts no section, and a heading without prose gives none (a text
\* without prose gives the fallback section alone)
C15_SectionsFollowHeadings ==
    result # <<>> =>
        LET lines == Split(arg.text, <<"\n">>)
            starts == Ascending(Emitting(lines))
        IN IF starts = <<>>
           THEN result[1] = <<Section(<<"Full Text">>, Strip(arg.text))>>
           ELSE result[1] = [k \in 1..Len(starts) |-> SectionAt(lines, starts[k])]

\* a numbered heading, two lines of prose, a second heading and one more
\* line have given two sections in that order
C15_Witness ==
    /\ result # <<>>
    /\ arg.text = <<"1", " ", "T", "\n", "x", "\n", "x", "\n", "H", "\n", "x">>
    /\ result[1] = <<Section(<<"1", " ", "T">>, <<"x", " ", "x">>),
                     Section(<<"H">>, <<"x">>)>>

\* ------------------------------------------------------------------------
\* Order of the frames of a stream
\* ------------------------------------------------------------------------

\* the tokens stream_claude made of blocks of the child's output
DataTokens ==
    LET keep == {i \in 1..Len(tokens) : i \notin ErrorTokens}
    IN [k \in 1..Cardinality(keep) |-> tokens[Ascending(keep)[k]]]

\* a is b with some of its elements left out
RECURSIVE IsSubsequence(_, _)
IsSubsequence(a, b) ==
    IF a = <<>> THEN TRUE
    ELSE IF b = <<>> THEN FALSE
    ELSE IF Head(a) = Head(b) THEN IsSubsequence(Tail(a), Tail(b))
    ELSE IsSubsequence(a, Tail(b))

\* the output the reads have taken from the pty so far
Consumed == Take(child_out, Len(child_out) - Len(pty))

\* C16: the token frames of a stream carry the tokens in the order they were
\* produced, each once: under sse_from_claude the frames carry the tokens of
\* stream_claude one for one, and the tokens, put end to end, are characters
\* of the child's output in the order the child wrote them, none used twice;
\* under sse_from_translator frame i is the frame of section i
C16_FramesInProductionOrder ==
    /\ route = "claude" =>
          /\ FrameTokens(frames) = tokens
          /\ master_fd = "open" => child_out = Consumed \o pty
          /\ IsSubsequence(Concat(DataTokens), RemoveCR(Consumed))
    /\ route = "translator" =>
          /\ Len(FrameTokens(frames)) = Len(pairs)
          /\ \A i \in 1..Len(pairs) :
                /\ frames[i].type = "token"
                /\ frames[i].section \in
                      {sections[i].heading, _translate_text(sections[i].heading)}
                /\ frames[i].data = SectionChunk(pairs[i])

\* a read timed out with the child alive (its thread is still blocked in
\* os.read), and the stream ran to its end with the three characters the
\* child wrote, in their order, in two tokens or more
C16_Witness ==
    /\ route = "claude" /\ RanToEnd /\ ~closing
    /\ child_out = <<"a", "b", "a">>
    /\ Len(tokens) >= 2 /\ Concat(DataTokens) = <<"a", "b", "a">>
    /\ orphans > 0

\* C20: a stream that ran to its end without being closed by its consumer
\* has emitted, in its tokens put end to end, the cleaned form of everything
\* the child wrote to the pty: no block is taken from the pty and dropped
C20_NoOutputLost ==
    (route = "claude" /\ RanToEnd /\ ~closing) =>
        Concat(DataTokens) = _strip_ansi(Decode(child_out))

\* ------------------------------------------------------------------------
\* translator.py: _translate_text applied to a content
\* ------------------------------------------------------------------------

\* longest content
MaxContentLen == 6

ContentAtoms == {"c", " ", "\n"}

InitTranslate ==
    /\ StreamIdle /\ StoreIdle
    /\ arg \in {[text |-> t] : t \in SeqsUpTo(ContentAtoms, MaxContentLen)}
    /\ result = <<>>

\* translate_sections line 50; the result is kept with the texts that were
\* handed to GoogleTranslator.translate on the way
CallTranslateText ==
    /\ result = <<>>
    /\ result' = <<[calls |-> TranslateCalls(arg.text),
                    translated |-> _translate_text(arg.text)]>>
    /\ UNCHANGED <<arg, streamVars, storeVars>>

SpecTranslate == InitTranslate /\ [][CallTranslateText]_vars

\* C17: a content longer than the limit is handed to the translation
\* capability in sub-chunks none of which is longer than the limit, and the
\* result is their translations joined by line breaks, in order
C17_SubChunksWithinLimit ==
    (result # <<>> /\ Len(arg.text) > MAX_CHUNK /\ Strip(arg.text) # <<>>) =>
        LET calls == result[1].calls
        IN /\ \A i \in 1..Len(calls) : Len(calls[i]) <= MAX_CHUNK
           /\ result[1].translated =
                 Join([i \in 1..Len(calls) |-> Translated(calls[i])], <<"\n">>)

\* C18: whenever the papers of two load requests served together get the same
\* fingerprint, the two stored values are the same, so that the store ends
\* the same whichever of the two stores takes effect last
C18_SameFingerprintSameValue ==
    \A i, j \in 1..Len(store_log) :
        store_log[i].pid = store_log[j].pid =>
            /\ store_log[i].paper = store_log[j].paper
            /\ get_paper(store_log[i].pid)[1].title = store_log[i].paper.title

\* ------------------------------------------------------------------------
\* The event loop: a translation stream and another request
\* ------------------------------------------------------------------------

\* how often the other request awaits I/O before it is finished
MaxAwaits == 3

\* sse_from_translator is an async generator, but translate_sections is a
\* plain generator, iterated with a plain for (main.py line 37), and
\* _translate_text calls GoogleTranslator.translate, a blocking HTTP request,
\* directly (translator.py lines 15 and 32): from the resumption of
\* sse_from_translator to its next yield nothing is awaited, so the task
\* keeps the thread of the event loop, the time it waits for the translation
\* service included.  The other request awaits its I/O: the read of
\* llm.py lines 75-78 runs in an executor thread, the fetch of
\* paper_ingestion.py line 141 is an httpx coroutine.

\* the calls of GoogleTranslator.translate made for one section
CallsOfSection(section) ==
    Len(TranslateCalls(section.heading)) + Len(TranslateCalls(section.content))

LoopFrame == UNCHANGED <<streamVars, callVars, _papers, store_log, loads>>

InitLoop ==
    /\ StreamIdle /\ CallIdle
    /\ _papers = <<>> /\ store_log = <<>> /\ loads = <<>>
    /\ \E secs \in SectionLists, io \in {"subprocess read", "network fetch"} :
          loop = [running |-> "none", sections |-> secs, section |-> 1,
                  translator |-> "ready", pending |-> 0,
                  other |-> "ready", awaits |-> 0, io |-> io]

\* the loop resumes sse_from_translator: it runs translate_sections up to
\* the first translation call of the next section, or, if the section needs
\* no call, up to the yield of its frame
TranslatorResumes ==
    /\ loop.running = "none" /\ loop.translator = "ready"
    /\ loop.section <= Len(loop.sections)
    /\ LET n == CallsOfSection(loop.sections[loop.section])
       IN loop' = IF n = 0
                  THEN [loop EXCEPT !.translator = "suspended", !.section = @ + 1]
                  ELSE [loop EXCEPT !.running = "translator",
                                    !.translator = "in_call", !.pending = n]
    /\ LoopFrame

\* the translation service answers (or the call raises): the task goes on to
\* its next call, or to the yield of line 39, where it leaves the thread
TranslateCallReturns ==
    /\ loop.translator = "in_call"
    /\ loop' = IF loop.pending > 1
               THEN [loop EXCEPT !.pending = @ - 1]
               ELSE [loop EXCEPT !.pending = 0, !.translator = "suspended",
                                 !.running = "none", !.section = @ + 1]
    /\ LoopFrame

\* the response has sent the frame and asks for the next one
ConsumerPulls ==
    /\ loop.translator = "suspended"
    /\ loop' = [loop EXCEPT !.translator = "ready"]
    /\ LoopFrame

\* main.py line 40: the sections are exhausted, the done frame is yielded
TranslatorFinishes ==
    /\ loop.running = "none" /\ loop.translator = "ready"
    /\ loop.section > Len(loop.sections)
    /\ loop' = [loop EXCEPT !.translator = "finished"]
    /\ LoopFrame

\* the loop resumes the other request, which runs up to its next await
OtherResumes ==
    /\ loop.running = "none" /\ loop.other = "ready"
    /\ loop' = IF loop.awaits < MaxAwaits
               THEN [loop EXCEPT !.other = "awaiting", !.awaits = @ + 1]
               ELSE [loop EXCEPT !.other = "finished"]
    /\ LoopFrame

\* the I/O the other request awaits completes (in the executor thread, or
\* in the kernel): the task is ready to be resumed
OtherIoCompletes ==
    /\ loop.other = "awaiting"
    /\ loop' = [loop EXCEPT !.other = "ready"]
    /\ LoopFrame

NextLoop ==
    \/ TranslatorResumes \/ TranslateCallReturns \/ ConsumerPulls
    \/ TranslatorFinishes \/ OtherResumes \/ OtherIoCompletes

SpecLoop == InitLoop /\ [][NextLoop]_vars

\* C19: a request that waits on I/O (a network fetch, a subprocess read, a
\* translation call) does not keep the other from stepping: while the other
\* request awaits its I/O the translation stream can be resumed, and while a
\* translation call is awaited the other request, if ready, can be resumed
C19_IoSuspendsOnlyTheCaller ==
    /\ (loop.other = "awaiting" /\ loop.translator = "ready")
          => ENABLED (TranslatorResumes \/ TranslatorFinishes)
    /\ (loop.translator = "in_call" /\ loop.other = "ready")
          => ENABLED OtherResumes

\* ------------------------------------------------------------------------
\* Termination of stream_claude (llm.py lines 62-67 and 72-100)
\* ------------------------------------------------------------------------

\* the steps of stream_claude that the event loop runs as soon as the
\* awaitable the coroutine waits on is done; the read that returns data is
\* scheduled by ReadFair
BridgeStep ==
    \/ OpenPty \/ OpenPtyFails \/ Spawn \/ SpawnFails
    \/ ReadEmpty \/ ReadOSError \/ ReadTimeout
    \/ FinallyClose \/ FinallyWait \/ AfterFinally

\* os.read(master_fd, 4096) of line 77 has data to return
ReadReady == gen = "reading" /\ master_fd = "open" /\ pty # <<>>

\* weak fairness of ReadData, written out: a read that stays ready returns
ReadFair == []<>(~ReadReady) \/ []<><<ReadData>>_vars

\* sse_from_claude asks for the next token after each one it has framed
ConsumerStep == ResumeAfterToken \/ ResumeAfterError

\* Fair scheduling: the event loop keeps running the bridge and its
\* consumer, the operating system keeps running the child (it writes its
\* diagnostics while the pipe takes them, and exits when it has written
\* them), and the child watcher reaps an exited child.
Fairness ==
    /\ WF_vars(BridgeStep)
    /\ ReadFair
    /\ WF_vars(ConsumerStep)
    /\ WF_vars(ChildWritesStderr)
    /\ WF_vars(ChildExits)
    /\ WF_vars(Reap)

SpecFair == Init /\ [][Next]_vars /\ Fairness

\* stream_claude has reached end-of-stream: it returned, raised, or was closed
EndOfStream == gen \in {"returned", "raised", "closed"}

\* the child's diagnostics exceed what the stderr pipe holds
DiagnosticsExceedPipe == stderr_todo + Len(stderr_pipe) > STDERR_CAPACITY

\* C21: under fair scheduling a request served by stream_claude eventually
\* reaches end-of-stream, whatever amount of diagnostics the child writes to
\* its stderr pipe.
C21_BridgeReachesEndOfStream == <>(route # "claude" \/ EndOfStream)

\* the requests whose child writes no more diagnostics than the pipe holds
\* do reach end-of-stream
TerminatesWhenDiagnosticsFit ==
    <>(route # "claude" \/ DiagnosticsExceedPipe \/ EndOfStream)

\* ------------------------------------------------------------------------
\* stream_claude's reading loop over the blocks of the child's output
\* (llm.py lines 73-83, with _strip_ansi of lines 49-55)
\* ------------------------------------------------------------------------

\* bytes of output the child writes to the pty
MaxBlockOut == 4

\* os.read(master_fd, 4096): the block size, scaled to MaxBlockOut so that a
\* whole escape sequence fits in one block
BLOCK_SIZE == 3

\* the bytes of the output: two letters, the bytes of the colour-reset
\* sequence ESC [ m (the letters are its final byte too), and the two bytes
\* of the UTF-8 encoding of U+00E9
BlockBytes == {"a", "m", ESC, "[", "C3", "A9"}

RECURSIVE SumOf(_)
SumOf(sizes) == IF sizes = <<>> THEN 0 ELSE Head(sizes) + SumOf(Tail(sizes))

\* the ways os.read can cut n bytes into blocks: each read returns what is
\* available, at least one byte and at most the block size
BlockSizes(n) == {z \in SeqsUpTo(1..BLOCK_SIZE, n) : SumOf(z) = n}

\* the blocks the successive reads of line 77 return
RECURSIVE BlocksOf(_, _)
BlocksOf(out, sizes) ==
    IF sizes = <<>> THEN <<>>
    ELSE <<Take(out, Head(sizes))>> \o BlocksOf(Drop(out, Head(sizes)), Tail(sizes))

\* lines 81-83 for each block in turn: the block is decoded and cleaned on
\* its own, and yielded if anything is left
RECURSIVE TokensOf(_)
TokensOf(blocks) ==
    IF blocks = <<>> THEN <<>>
    ELSE LET text == _strip_ansi(Decode(Head(blocks)))
         IN (IF text # <<>> THEN <<text>> ELSE <<>>) \o TokensOf(Tail(blocks))

InitBlocks ==
    /\ StreamIdle /\ StoreIdle
    /\ \E out \in SeqsUpTo(BlockBytes, MaxBlockOut) :
          \E sizes \in BlockSizes(Len(out)) :
              arg = [out |-> out, sizes |-> sizes]
    /\ result = <<>>

\* the loop of lines 73-88 run to end of file over the blocks
ReadBlocks ==
    /\ result = <<>>
    /\ result' = <<TokensOf(BlocksOf(arg.out, arg.sizes))>>
    /\ UNCHANGED <<arg, streamVars, storeVars>>

SpecBlocks == InitBlocks /\ [][ReadBlocks]_vars

\* C22: for every output and every way of cutting it into read blocks, the
\* concatenation of the tokens stream_claude yields is _strip_ansi of the
\* whole decoded output.
C22_TokensIndependentOfBlocks ==
    result # <<>> => Concat(result[1]) = _strip_ansi(Decode(arg.out))

\* an output that arrives in one block does give the cleaned whole
OneBlockGivesCleanedWhole ==
    (result # <<>> /\ Len(arg.sizes) <= 1) =>
        Concat(result[1]) = _strip_ansi(Decode(arg.out))

====
